---------------------------- MODULE Spec2Model ----------------------------
(***************************************************************************)
(* Heatmap telemetry of the KRONJON DayZ Livonia server scripts:           *)
(*   eAIBase.c        throttled waypoint sampling and death capture of AI  *)
(*   ZombieBase.c     death capture of infected                            *)
(*   missionserver.c  session file, autosave timer, final save             *)
(*                                                                         *)
(* Times are whole seconds (deltaTime, timeslice) and whole milliseconds   *)
(* (GetGame().GetTime()); float rounding below one unit is not modelled,   *)
(* except that float.MAX absorbs every deltaTime added to it.              *)
(* Each handler runs to completion on the server's script thread, so one   *)
(* handler call is one step, and the clock and the entity position do not  *)
(* change inside a handler.                                                *)
(***************************************************************************)
EXTENDS Integers, Sequences, FiniteSets, TLC

\* ------------------------------------------------------------------ bounds
MaxPoints == 3        \* longest trajectory explored
MaxClockSteps == 1    \* times the simulation clock advances
SessionSamples == 1   \* throttled samples per trajectory while the session is followed

ArrayIds == {1, 2}    \* array<vector> objects OnSelectPlayer can allocate
Agents == {"a1"}
Zombies == {"z1"}
Positions == {<<3, 7, 4>>}                 \* GetPosition(): x, height, z
Deltas == {1, 12}                          \* deltaTime of a scheduled tick
SessionDeltas == {12}                      \* the same, while the session is followed
Timeslices == {30, 60}                     \* timeslice of a mission update
\* GetDate(): year, month, day, hour, minute; the sixth number is the second
\* of the calendar at that moment, which GetDate does not give
Dates == {<<2024, 3, 5, 14, 7, 33>>}
ClockStep == 1000                          \* ms the clock advances per step

\* ------------------------------------------------------- program constants
FLOAT_MAX == 1000000000
HEATMAP_TICK_TIME == 10
HEATMAP_TICK_TIME_VEHICLE == 2
AUTOSAVE_INTERVAL == 120
HEATMAP_PROFILE_FOLDER == "$profile:Heatmap"
NULL == 0

VARIABLES
    clock,              \* GetGame().GetTime(), ms
    isDedicatedServer,  \* GetGame().IsDedicatedServer()
    alive,              \* IsAlive() of every entity
    m_HeatmapTime,      \* eAIBase.m_HeatmapTime, per agent
    m_AIWayPoints,      \* eAIBase.m_AIWayPoints, per agent: NULL or an array id
    arrays,             \* the array<vector> objects, by id
    m_WayPoints,        \* ZombieBase.m_WayPoints, per zombie
    CURRENT_HEATMAP,    \* HeatmapData.CURRENT_HEATMAP
    m_AutosaveTimer,    \* MissionServer.m_AutosaveTimer
    m_SessionFileName,  \* MissionServer.m_SessionFileName
    dirExists,          \* FileExist(HEATMAP_PROFILE_FOLDER)
    disk,               \* files written: path -> document
    inited,             \* OnInit has run
    finished,           \* OnMissionFinish has run
    sinceCapture,       \* history: eligible tick time since the last throttled capture
    sinceEntered,       \* history: eligible tick time since the agent was last seen
                        \* outside a vehicle, up to HEATMAP_TICK_TIME_VEHICLE
    owner,              \* history: the agent that allocated each array
    sinceFlush,         \* history: timeslice since the last autosave flush
    dirty,              \* history: the aggregate grew since the last written file
    lastSave,           \* history: what SaveHeatmapData did in the last step
    writeFailed,        \* history: a write of the session file has failed
    ev                  \* history: the last handler call

vars == <<clock, isDedicatedServer, alive, m_HeatmapTime, m_AIWayPoints, arrays,
          m_WayPoints, CURRENT_HEATMAP, m_AutosaveTimer, m_SessionFileName,
          dirExists, disk, inited, finished, sinceCapture, sinceEntered, owner,
          sinceFlush,
          dirty, lastSave, writeFailed, ev>>

entityVars == <<alive, m_HeatmapTime, m_AIWayPoints, arrays, m_WayPoints,
                CURRENT_HEATMAP>>
missionVars == <<m_AutosaveTimer, m_SessionFileName, dirExists, disk, inited, finished>>

Event(op, who, sel) == [op |-> op, who |-> who, sel |-> sel, veh |-> FALSE]

TickEvent(a, sel, veh) == [Event("OnScheduledTick", a, sel) EXCEPT !.veh = veh]

\* --------------------------------------------------------------- eAIBase.c
\* mutant of FloatAdd: the sum starts over from deltaTime at float.MAX
FloatAdd_StartsOver(a, b) == IF a = FLOAT_MAX THEN b ELSE a + b

\* float addition at tick magnitude: float.MAX + deltaTime rounds to float.MAX
FloatAdd(a, b) == IF a = FLOAT_MAX THEN FLOAT_MAX ELSE a + b

GetWaypoint(pos) == [pos EXCEPT ![2] = clock \div 1000]

\* mutants of Eligible: the selection test, or the IsAlive test, left out
Eligible_IgnoresSelection(a, sel) == m_AIWayPoints[a] # NULL /\ alive[a]

Eligible_IgnoresAlive(a, sel) == m_AIWayPoints[a] # NULL /\ sel

Eligible(a, sel) == m_AIWayPoints[a] # NULL /\ sel /\ alive[a]

\* mutants of ThrottleFires: the vehicle threshold left out; the vehicle
\* threshold applied on foot as well
ThrottleFires_NormalOnly(t, veh) == t >= HEATMAP_TICK_TIME

ThrottleFires_VehicleAlways(t, veh) ==
    t >= HEATMAP_TICK_TIME_VEHICLE \/ t >= HEATMAP_TICK_TIME

ThrottleFires(t, veh) ==
    (t >= HEATMAP_TICK_TIME_VEHICLE /\ veh) \/ t >= HEATMAP_TICK_TIME

\* mutant of AfterCapture: the excess over the threshold is carried over
AfterCapture_Carry(t) == t - HEATMAP_TICK_TIME

AfterCapture(t) == 0

\* mutant of Insert: the new waypoint is put in front of the older ones
Insert_Front(arr, id, wp) == [arr EXCEPT ![id] = <<wp>> \o @]

Insert(arr, id, wp) == [arr EXCEPT ![id] = Append(@, wp)]

OnSelectPlayer(a) ==
    /\ IF isDedicatedServer
       THEN LET id == Len(arrays) + 1 IN
            /\ arrays' = Append(arrays, <<>>)
            /\ m_AIWayPoints' = [m_AIWayPoints EXCEPT ![a] = id]
            /\ CURRENT_HEATMAP' =
                   [CURRENT_HEATMAP EXCEPT !.m_AIWayPoints = Append(@, id)]
       ELSE UNCHANGED <<arrays, m_AIWayPoints, CURRENT_HEATMAP>>
    /\ UNCHANGED <<alive, m_HeatmapTime, m_WayPoints>>

OnScheduledTick(a, deltaTime, sel, veh, pos) ==
    IF ~Eligible(a, sel)
    THEN UNCHANGED <<alive, m_HeatmapTime, m_AIWayPoints, arrays, m_WayPoints,
                     CURRENT_HEATMAP>>
    ELSE LET t == FloatAdd(m_HeatmapTime[a], deltaTime) IN
         /\ IF ThrottleFires(t, veh)
            THEN /\ arrays' = Insert(arrays, m_AIWayPoints[a], GetWaypoint(pos))
                 /\ m_HeatmapTime' = [m_HeatmapTime EXCEPT ![a] = AfterCapture(t)]
            ELSE /\ m_HeatmapTime' = [m_HeatmapTime EXCEPT ![a] = t]
                 /\ UNCHANGED arrays
         /\ UNCHANGED <<alive, m_AIWayPoints, m_WayPoints, CURRENT_HEATMAP>>

\* mutants of AgentDeathWrites: the death is recorded only once the throttle
\* has fired; the death log gets the position without its time stamp; the
\* death goes to the death log but not to the trajectory
AgentDeathWrites_DeathLogOnly(a, pos) ==
    IF m_AIWayPoints[a] # NULL
    THEN /\ CURRENT_HEATMAP' =
                [CURRENT_HEATMAP EXCEPT !.m_AIDeathPoints = Append(@, GetWaypoint(pos))]
         /\ UNCHANGED arrays
    ELSE UNCHANGED <<arrays, CURRENT_HEATMAP>>

AgentDeathWrites_AfterFirstSample(a, pos) ==
    IF m_AIWayPoints[a] # NULL /\ m_HeatmapTime[a] # FLOAT_MAX
    THEN /\ arrays' = Insert(arrays, m_AIWayPoints[a], GetWaypoint(pos))
         /\ CURRENT_HEATMAP' =
                [CURRENT_HEATMAP EXCEPT !.m_AIDeathPoints = Append(@, GetWaypoint(pos))]
    ELSE UNCHANGED <<arrays, CURRENT_HEATMAP>>

AgentDeathWrites_RawPosition(a, pos) ==
    IF m_AIWayPoints[a] # NULL
    THEN /\ arrays' = Insert(arrays, m_AIWayPoints[a], GetWaypoint(pos))
         /\ CURRENT_HEATMAP' =
                [CURRENT_HEATMAP EXCEPT !.m_AIDeathPoints = Append(@, pos)]
    ELSE UNCHANGED <<arrays, CURRENT_HEATMAP>>

AgentDeathWrites(a, pos) ==
    IF m_AIWayPoints[a] # NULL
    THEN /\ arrays' = Insert(arrays, m_AIWayPoints[a], GetWaypoint(pos))
         /\ CURRENT_HEATMAP' =
                [CURRENT_HEATMAP EXCEPT !.m_AIDeathPoints = Append(@, GetWaypoint(pos))]
    ELSE UNCHANGED <<arrays, CURRENT_HEATMAP>>

AgentEEKilled(a, pos) ==
    /\ alive' = [alive EXCEPT ![a] = FALSE]
    /\ AgentDeathWrites(a, pos)
    /\ UNCHANGED <<m_HeatmapTime, m_AIWayPoints, m_WayPoints>>

\* ------------------------------------------------------------ ZombieBase.c
ZombieDeathWrites(z, pos) ==
    /\ m_WayPoints' = [m_WayPoints EXCEPT ![z] = Append(@, GetWaypoint(pos))]
    /\ CURRENT_HEATMAP' =
           [CURRENT_HEATMAP EXCEPT !.m_ZombiePoints = Append(@, GetWaypoint(pos))]

ZombieEEKilled(z, pos) ==
    /\ alive' = [alive EXCEPT ![z] = FALSE]
    /\ ZombieDeathWrites(z, pos)
    /\ UNCHANGED <<m_HeatmapTime, m_AIWayPoints, arrays>>

\* --------------------------------------------------------- missionserver.c
SessionFileName(date, time) ==
    HEATMAP_PROFILE_FOLDER \o "/session_" \o ToString(date[1]) \o "-"
        \o ToString(date[2]) \o "-" \o ToString(date[3]) \o "_"
        \o ToString(date[4]) \o "-" \o ToString(date[5]) \o "-"
        \o ToString(time % 60) \o "_Heatmap.json"

\* JsonFileLoader<HeatmapData>.JsonSaveFile: the document holds the values the
\* aggregate refers to at the moment of the call
\* mutant of Serialize: the document is stamped with the time of the save
Serialize_Stamped(h, arr) ==
    [m_ZombiePoints |-> h.m_ZombiePoints,
     m_AIWayPoints |-> [i \in 1..Len(h.m_AIWayPoints) |-> arr[h.m_AIWayPoints[i]]],
     m_AIDeathPoints |-> h.m_AIDeathPoints,
     savedAt |-> clock]

Serialize(h, arr) ==
    [m_ZombiePoints |-> h.m_ZombiePoints,
     m_AIWayPoints |-> [i \in 1..Len(h.m_AIWayPoints) |-> arr[h.m_AIWayPoints[i]]],
     m_AIDeathPoints |-> h.m_AIDeathPoints]

\* mutant of WriteFile: an existing file is kept, not overwritten
WriteFile_KeepOld(d, path, doc) ==
    [p \in DOMAIN d \cup {path} |-> IF p \in DOMAIN d THEN d[p] ELSE doc]

WriteFile(d, path, doc) ==
    [p \in DOMAIN d \cup {path} |-> IF p = path THEN doc ELSE d[p]]

HasSessionFile(name) == name # ""

\* mutant of SaveHeatmapData: once a write has failed, no write is tried again
SaveHeatmapData_GivesUp(ok) ==
    IF ~HasSessionFile(m_SessionFileName) \/ writeFailed
    THEN /\ lastSave' = "skipped"
         /\ UNCHANGED <<disk, dirty, writeFailed>>
    ELSE IF dirExists /\ ok
    THEN /\ disk' = WriteFile(disk, m_SessionFileName,
                              Serialize(CURRENT_HEATMAP, arrays))
         /\ lastSave' = IF m_SessionFileName \notin DOMAIN disk THEN "written"
                        ELSE IF dirty THEN "overwritten" ELSE "rewritten"
         /\ dirty' = FALSE
         /\ UNCHANGED writeFailed
    ELSE /\ lastSave' = "failed"
         /\ writeFailed' = TRUE
         /\ UNCHANGED <<disk, dirty>>

\* Without a session file name nothing is written. Otherwise JsonSaveFile is
\* called: it opens the file in the profile folder, so the write needs the
\* folder, and it fails when the file system refuses it (ok = FALSE); its
\* result is not looked at.
SaveHeatmapData(ok) ==
    IF ~HasSessionFile(m_SessionFileName)
    THEN /\ lastSave' = "skipped"
         /\ UNCHANGED <<disk, dirty, writeFailed>>
    ELSE IF dirExists /\ ok
    THEN /\ disk' = WriteFile(disk, m_SessionFileName,
                              Serialize(CURRENT_HEATMAP, arrays))
         /\ lastSave' = IF m_SessionFileName \notin DOMAIN disk THEN "written"
                        ELSE IF dirty THEN "overwritten" ELSE "rewritten"
         /\ dirty' = FALSE
         /\ UNCHANGED writeFailed
    ELSE /\ lastSave' = "failed"
         /\ writeFailed' = TRUE
         /\ UNCHANGED <<disk, dirty>>

\* mutant of AutosaveDue: the interval has to be passed, not reached
AutosaveDue_Strict(t) == t > AUTOSAVE_INTERVAL

AutosaveDue(t) == t >= AUTOSAVE_INTERVAL

OnInit(date, mkdirOk) ==
    /\ dirExists' = (dirExists \/ mkdirOk)
    /\ m_SessionFileName' = SessionFileName(date, clock)
    /\ inited' = TRUE
    /\ lastSave' = "none"
    /\ UNCHANGED <<m_AutosaveTimer, disk, finished, dirty, writeFailed>>

\* mutant of OnUpdate: updates are ignored once the mission has finished
OnUpdate_IgnoredWhenFinished(timeslice, ok) ==
    LET t == m_AutosaveTimer + timeslice IN
    /\ IF finished
       THEN /\ lastSave' = "none"
            /\ UNCHANGED <<m_AutosaveTimer, disk, dirty, writeFailed>>
       ELSE IF AutosaveDue(t)
       THEN /\ m_AutosaveTimer' = 0
            /\ SaveHeatmapData(ok)
       ELSE /\ m_AutosaveTimer' = t
            /\ lastSave' = "none"
            /\ UNCHANGED <<disk, dirty, writeFailed>>
    /\ UNCHANGED <<m_SessionFileName, dirExists, inited, finished>>

OnUpdate(timeslice, ok) ==
    LET t == m_AutosaveTimer + timeslice IN
    /\ IF AutosaveDue(t)
       THEN /\ m_AutosaveTimer' = 0
            /\ SaveHeatmapData(ok)
       ELSE /\ m_AutosaveTimer' = t
            /\ lastSave' = "none"
            /\ UNCHANGED <<disk, dirty, writeFailed>>
    /\ UNCHANGED <<m_SessionFileName, dirExists, inited, finished>>

\* mutant of OnMissionFinish: the final save is skipped when the autosave
\* timer stands at 0
OnMissionFinish_WhenTimerRuns(ok) ==
    /\ IF m_AutosaveTimer > 0
       THEN SaveHeatmapData(ok)
       ELSE /\ lastSave' = "none"
            /\ UNCHANGED <<disk, dirty, writeFailed>>
    /\ finished' = TRUE
    /\ UNCHANGED <<m_AutosaveTimer, m_SessionFileName, dirExists, inited>>

OnMissionFinish(ok) ==
    /\ SaveHeatmapData(ok)
    /\ finished' = TRUE
    /\ UNCHANGED <<m_AutosaveTimer, m_SessionFileName, dirExists, inited>>

\* ------------------------------------------------------------ state machine
NoEvent == Event("none", "none", FALSE)

Init ==
    /\ clock = 0
    /\ isDedicatedServer \in BOOLEAN
    /\ alive = [e \in Agents \cup Zombies |-> TRUE]
    /\ m_HeatmapTime = [a \in Agents |-> FLOAT_MAX]
    /\ m_AIWayPoints = [a \in Agents |-> NULL]
    /\ arrays = <<>>
    /\ m_WayPoints = [z \in Zombies |-> <<>>]
    /\ CURRENT_HEATMAP =
           [m_ZombiePoints |-> <<>>, m_AIWayPoints |-> <<>>, m_AIDeathPoints |-> <<>>]
    /\ m_AutosaveTimer = 0
    /\ m_SessionFileName = ""
    /\ dirExists \in BOOLEAN
    /\ disk = [p \in {} |-> <<>>]
    /\ inited = FALSE
    /\ finished = FALSE
    /\ sinceCapture = [a \in Agents |-> 0]
    /\ sinceEntered = [a \in Agents |-> 0]
    /\ owner = <<>>
    /\ sinceFlush = 0
    /\ dirty = FALSE
    /\ lastSave = "none"
    /\ writeFailed = FALSE
    /\ ev = NoEvent

\* the trajectory the agent writes to, <<>> when it has none
Trajectory(a) == IF m_AIWayPoints[a] = NULL THEN <<>> ELSE arrays[m_AIWayPoints[a]]

HasRoom(a) == Len(Trajectory(a)) < MaxPoints

\* history of a step of the entities: the aggregate grew, nothing was saved
Appended ==
    /\ dirty' = (dirty \/ arrays' # arrays \/ CURRENT_HEATMAP' # CURRENT_HEATMAP)
    /\ lastSave' = "none"
    /\ UNCHANGED <<clock, isDedicatedServer, sinceFlush, writeFailed, missionVars>>

AdvanceClock ==
    /\ clock < MaxClockSteps * ClockStep
    /\ clock' = clock + ClockStep
    /\ ev' = Event("AdvanceClock", "clock", FALSE)
    /\ lastSave' = "none"
    /\ UNCHANGED <<isDedicatedServer, entityVars, missionVars, sinceCapture,
                   sinceEntered, owner, sinceFlush, dirty, writeFailed>>

InitStep(date, mkdirOk) ==
    /\ ~inited
    /\ OnInit(date, mkdirOk)
    /\ ev' = Event("OnInit", "mission", FALSE)
    /\ UNCHANGED <<clock, isDedicatedServer, entityVars, sinceCapture, sinceEntered,
                   owner, sinceFlush>>

UpdateStep(timeslice, ok) ==
    /\ inited
    /\ OnUpdate(timeslice, ok)
    /\ sinceFlush' = IF lastSave' = "none" THEN sinceFlush + timeslice ELSE 0
    /\ ev' = Event("OnUpdate", "mission", FALSE)
    /\ UNCHANGED <<clock, isDedicatedServer, entityVars, sinceCapture, sinceEntered,
                   owner>>

FinishStep(ok) ==
    /\ inited /\ ~finished
    /\ OnMissionFinish(ok)
    /\ ev' = Event("OnMissionFinish", "mission", FALSE)
    /\ UNCHANGED <<clock, isDedicatedServer, entityVars, sinceCapture, sinceEntered,
                   owner, sinceFlush>>

SelectStep(a) ==
    /\ Len(arrays) + 1 \in ArrayIds
    /\ OnSelectPlayer(a)
    /\ owner' = IF arrays' # arrays THEN Append(owner, a) ELSE owner
    /\ ev' = Event("OnSelectPlayer", a, FALSE)
    /\ Appended
    /\ UNCHANGED <<sinceCapture, sinceEntered>>

TickStep(a, deltaTime, sel, veh, pos) ==
    /\ HasRoom(a)
    /\ OnScheduledTick(a, deltaTime, sel, veh, pos)
    /\ sinceCapture' =
           [sinceCapture EXCEPT ![a] =
                IF ~(m_AIWayPoints[a] # NULL /\ sel /\ alive[a]) THEN @
                ELSE IF arrays' # arrays THEN 0 ELSE @ + deltaTime]
    /\ sinceEntered' =
           [sinceEntered EXCEPT ![a] =
                IF ~(m_AIWayPoints[a] # NULL /\ sel /\ alive[a]) THEN @
                ELSE IF ~veh THEN 0
                ELSE IF @ + deltaTime >= HEATMAP_TICK_TIME_VEHICLE
                THEN HEATMAP_TICK_TIME_VEHICLE ELSE @ + deltaTime]
    /\ ev' = TickEvent(a, sel, veh)
    /\ Appended
    /\ UNCHANGED owner

AgentKillStep(a, pos) ==
    /\ alive[a]
    /\ HasRoom(a)
    /\ AgentEEKilled(a, pos)
    /\ ev' = Event("EEKilled", a, FALSE)
    /\ Appended
    /\ UNCHANGED <<sinceCapture, sinceEntered, owner>>

ZombieKillStep(z, pos) ==
    /\ alive[z]
    /\ ZombieEEKilled(z, pos)
    /\ ev' = Event("EEKilled", z, FALSE)
    /\ Appended
    /\ UNCHANGED <<sinceCapture, sinceEntered, owner>>

MissionInit == \E date \in Dates, mkdirOk \in BOOLEAN : InitStep(date, mkdirOk)

MissionUpdate == \E timeslice \in Timeslices, ok \in BOOLEAN : UpdateStep(timeslice, ok)

MissionFinish == \E ok \in BOOLEAN : FinishStep(ok)

SelectPlayer == \E a \in Agents : SelectStep(a)

ScheduledTick ==
    \E a \in Agents, deltaTime \in Deltas, sel \in BOOLEAN, veh \in BOOLEAN,
       pos \in Positions : TickStep(a, deltaTime, sel, veh, pos)

AgentKilled == \E a \in Agents, pos \in Positions : AgentKillStep(a, pos)

ZombieKilled == \E z \in Zombies, pos \in Positions : ZombieKillStep(z, pos)

\* the entities alone: every input of the scheduled tick
NextSampling ==
    \/ AdvanceClock
    \/ SelectPlayer
    \/ ScheduledTick
    \/ AgentKilled
    \/ ZombieKilled

SpecSampling == Init /\ [][NextSampling]_vars

\* the mission and the entities it records, which exist once the mission runs
SessionSelect == inited /\ SelectPlayer

SessionTick ==
    /\ inited
    /\ \E a \in Agents, deltaTime \in SessionDeltas, pos \in Positions :
           /\ Len(Trajectory(a)) < SessionSamples
           /\ TickStep(a, deltaTime, TRUE, FALSE, pos)

SessionAgentKilled == inited /\ AgentKilled

SessionZombieKilled == inited /\ ZombieKilled

NextSession ==
    \/ AdvanceClock
    \/ MissionInit
    \/ MissionUpdate
    \/ MissionFinish
    \/ SessionSelect
    \/ SessionTick
    \/ SessionAgentKilled
    \/ SessionZombieKilled

SpecSession == Init /\ [][NextSession]_vars


\* ------------------------------------------------ vocabulary of the claims
\* an agent the scheduled tick skips: no trajectory, not selected, or dead
Skipped(a, sel) == m_AIWayPoints[a] = NULL \/ ~sel \/ ~alive[a]

\* the threshold that applies to a tick: the vehicle one in a vehicle
Threshold(veh) == IF veh THEN HEATMAP_TICK_TIME_VEHICLE ELSE HEATMAP_TICK_TIME

GrewByOne(before, after) ==
    Len(after) = Len(before) + 1 /\ SubSeq(after, 1, Len(before)) = before

\* the step appended one waypoint to the trajectory the agent writes to
Captured(a) ==
    /\ m_AIWayPoints[a] # NULL
    /\ m_AIWayPoints'[a] = m_AIWayPoints[a]
    /\ GrewByOne(arrays[m_AIWayPoints[a]], arrays'[m_AIWayPoints[a]])

IsTick(a) == ev'.op = "OnScheduledTick" /\ ev'.who = a

IsDeath(e) == ev'.op = "EEKilled" /\ ev'.who = e

\* ---------------------------------------------------------------- claim C1
\* C1 as stated: on every eligible tick the throttle captures a waypoint if
\* and only if the eligible tick time summed since the last throttled capture,
\* counted from 0 at the start, has reached the applicable threshold, and a
\* capture leaves the accumulator at exactly 0.
C1_FromZero ==
    [][\A a \in Agents, dt \in Deltas, veh \in BOOLEAN, pos \in Positions :
         (IsTick(a) /\ ~Skipped(a, TRUE) /\ TickStep(a, dt, TRUE, veh, pos))
         => /\ Captured(a) <=> sinceCapture[a] + dt >= Threshold(veh)
            /\ Captured(a) => m_HeatmapTime'[a] = 0]_vars

\* C1 amended: the accumulator starts at float.MAX, so the first eligible tick
\* of an agent always captures; on every later eligible tick the throttle
\* captures if and only if the eligible tick time summed since the last
\* throttled capture has reached the applicable threshold. A capture leaves
\* the accumulator at exactly 0, and between captures the accumulator is that
\* sum.
C1_Throttle ==
    [][\A a \in Agents, dt \in Deltas, veh \in BOOLEAN, pos \in Positions :
         (IsTick(a) /\ ~Skipped(a, TRUE) /\ TickStep(a, dt, TRUE, veh, pos))
         => /\ Captured(a) <=> \/ m_HeatmapTime[a] = FLOAT_MAX
                               \/ sinceCapture[a] + dt >= Threshold(veh)
            /\ Captured(a) => m_HeatmapTime'[a] = 0
            /\ ~Captured(a) => m_HeatmapTime'[a] = sinceCapture[a] + dt]_vars

\* a capture by the threshold: the second waypoint of a living agent
C1_Witness ==
    \E a \in Agents :
        /\ ev = Event("OnScheduledTick", a, TRUE)
        /\ alive[a]
        /\ Len(Trajectory(a)) >= 2
        /\ m_HeatmapTime[a] = 0

\* ---------------------------------------------------------------- claim C2
\* C2: a scheduled tick of an agent that is dead, not player-selected or
\* without a trajectory appends nothing and leaves the accumulator, every
\* trajectory and the session aggregate as they were.
C2_SkippedTick ==
    [][\A a \in Agents, dt \in Deltas, sel \in BOOLEAN, veh \in BOOLEAN,
          pos \in Positions :
         (IsTick(a) /\ Skipped(a, sel) /\ TickStep(a, dt, sel, veh, pos))
         => UNCHANGED <<m_HeatmapTime, m_AIWayPoints, arrays, CURRENT_HEATMAP,
                        m_WayPoints, alive>>]_vars

\* a dead agent with a trajectory and 9 s on its accumulator was ticked
C2_Witness ==
    \E a \in Agents :
        /\ ev = Event("OnScheduledTick", a, TRUE)
        /\ ~alive[a]
        /\ m_AIWayPoints[a] # NULL
        /\ m_HeatmapTime[a] = HEATMAP_TICK_TIME - 1

\* ---------------------------------------------------------------- claim C3
\* C3: every death appends exactly one waypoint to its flat collection and
\* none to the other: a zombie's to m_ZombiePoints, a tracked agent's (one
\* with a trajectory) to m_AIDeathPoints, whatever the accumulator holds.
C3_DeathAppendsOne ==
    [][/\ \A z \in Zombies :
            IsDeath(z)
            => /\ GrewByOne(CURRENT_HEATMAP.m_ZombiePoints,
                            CURRENT_HEATMAP'.m_ZombiePoints)
               /\ CURRENT_HEATMAP'.m_AIDeathPoints = CURRENT_HEATMAP.m_AIDeathPoints
       /\ \A a \in Agents :
            (IsDeath(a) /\ m_AIWayPoints[a] # NULL)
            => /\ GrewByOne(CURRENT_HEATMAP.m_AIDeathPoints,
                            CURRENT_HEATMAP'.m_AIDeathPoints)
               /\ CURRENT_HEATMAP'.m_ZombiePoints = CURRENT_HEATMAP.m_ZombiePoints]_vars

\* a tracked agent died before its throttle ever fired, and a zombie died
C3_Witness ==
    \E a \in Agents :
        /\ ev = Event("EEKilled", a, FALSE)
        /\ m_AIWayPoints[a] # NULL
        /\ m_HeatmapTime[a] = FLOAT_MAX
        /\ Len(CURRENT_HEATMAP.m_AIDeathPoints) = 1
        /\ Len(CURRENT_HEATMAP.m_ZombiePoints) = 1

\* ---------------------------------------------------------------- claim C4
\* C4: the death of an agent with a trajectory appends one and the same
\* waypoint to that trajectory and to m_AIDeathPoints; the death of an agent
\* without a trajectory changes neither the aggregate nor any trajectory.
C4_DualWrite ==
    [][\A a \in Agents :
         IsDeath(a)
         => IF m_AIWayPoints[a] # NULL
            THEN /\ Captured(a)
                 /\ GrewByOne(CURRENT_HEATMAP.m_AIDeathPoints,
                              CURRENT_HEATMAP'.m_AIDeathPoints)
                 /\ arrays'[m_AIWayPoints[a]][Len(arrays'[m_AIWayPoints[a]])]
                        = CURRENT_HEATMAP'.m_AIDeathPoints[
                              Len(CURRENT_HEATMAP'.m_AIDeathPoints)]
                 /\ \A i \in DOMAIN arrays :
                        i # m_AIWayPoints[a] => arrays'[i] = arrays[i]
            ELSE UNCHANGED <<arrays, CURRENT_HEATMAP, m_AIWayPoints>>]_vars

\* an agent died with samples already on its trajectory, after the clock moved
C4_Witness ==
    \E a \in Agents :
        /\ ev = Event("EEKilled", a, FALSE)
        /\ Len(Trajectory(a)) >= 2
        /\ Trajectory(a)[Len(Trajectory(a))][2] = 1
        /\ Trajectory(a)[Len(Trajectory(a))] = CURRENT_HEATMAP.m_AIDeathPoints[1]

\* an agent that was never selected died
C4_WitnessUntracked ==
    \E a \in Agents :
        /\ ev = Event("EEKilled", a, FALSE)
        /\ m_AIWayPoints[a] = NULL

\* ---------------------------------------------------------------- claim C5
\* C5: no trajectory of an agent grows once the agent is dead, so the
\* waypoint its death appended stays the last one of its trajectory.
C5_NoGrowthAfterDeath ==
    [][\A a \in Agents :
         ~alive[a]
         => /\ ~alive'[a]
            /\ \A i \in DOMAIN arrays : owner[i] = a => arrays'[i] = arrays[i]]_vars

\* a dead agent was ticked while selected, and its trajectory ends with the
\* waypoint of its death
C5_Witness ==
    \E a \in Agents :
        /\ ev = Event("OnScheduledTick", a, TRUE)
        /\ ~alive[a]
        /\ Len(Trajectory(a)) >= 2
        /\ Len(CURRENT_HEATMAP.m_AIDeathPoints) = 1
        /\ Trajectory(a)[Len(Trajectory(a))] = CURRENT_HEATMAP.m_AIDeathPoints[1]


\* the last step called SaveHeatmapData; the call wrote the file
Flushed(v) == v # "none"

Wrote(v) == v \in {"written", "overwritten", "rewritten"}

\* doc holds the whole aggregate h: its three collections in full, each
\* registered trajectory with all of its waypoints
FullDocument(doc, h, arr) ==
    /\ doc.m_ZombiePoints = h.m_ZombiePoints
    /\ doc.m_AIDeathPoints = h.m_AIDeathPoints
    /\ Len(doc.m_AIWayPoints) = Len(h.m_AIWayPoints)
    /\ \A i \in 1..Len(h.m_AIWayPoints) :
           doc.m_AIWayPoints[i] = arr[h.m_AIWayPoints[i]]

AggregateSize ==
    Len(CURRENT_HEATMAP.m_ZombiePoints) + Len(CURRENT_HEATMAP.m_AIDeathPoints)
        + Len(CURRENT_HEATMAP.m_AIWayPoints)

\* ---------------------------------------------------------------- claim C6
\* C6: a mission update flushes exactly when the timeslice summed since the
\* last autosave flush (from 0 at the start) reaches AUTOSAVE_INTERVAL = 120,
\* and then the accumulator is 0; otherwise the accumulator is that sum.
C6_Autosave ==
    [][\A timeslice \in Timeslices, ok \in BOOLEAN :
         (ev'.op = "OnUpdate" /\ UpdateStep(timeslice, ok))
         => /\ AUTOSAVE_INTERVAL = 120
            /\ Flushed(lastSave') <=> sinceFlush + timeslice >= 120
            /\ Flushed(lastSave') => m_AutosaveTimer' = 0
            /\ ~Flushed(lastSave') => m_AutosaveTimer' = sinceFlush + timeslice]_vars

\* an update flushed and reset the accumulator
C6_Witness ==
    /\ ev.op = "OnUpdate"
    /\ Flushed(lastSave)
    /\ m_AutosaveTimer = 0
    /\ sinceFlush = 0

C8_TicksStop ==
    [][(finished /\ ev'.op = "OnUpdate")
       => m_AutosaveTimer' = m_AutosaveTimer /\ disk' = disk]_vars

\* C8 amended: the mission keeps no finalized state. An update after
\* OnMissionFinish is processed like any other: it adds its timeslice to the
\* accumulator, and when the accumulator reaches AUTOSAVE_INTERVAL it resets
\* it and flushes again; an update that leaves the accumulator below the
\* interval writes nothing.
C8_TicksGoOn ==
    [][\A timeslice \in Timeslices, ok \in BOOLEAN :
         (finished /\ ev'.op = "OnUpdate" /\ UpdateStep(timeslice, ok))
         => IF m_AutosaveTimer + timeslice >= AUTOSAVE_INTERVAL
            THEN m_AutosaveTimer' = 0 /\ Flushed(lastSave')
            ELSE /\ m_AutosaveTimer' = m_AutosaveTimer + timeslice
                 /\ disk' = disk]_vars

\* an update after OnMissionFinish wrote waypoints that came after it
C8_Witness ==
    /\ finished
    /\ ev.op = "OnUpdate"
    /\ lastSave = "overwritten"

\* ---------------------------------------------------------------- claim C9
\* C9: a flush changes neither the aggregate nor any trajectory, and a flush
\* that writes when nothing was appended since the last written file leaves
\* the file as it was.
C9_FlushIdempotent ==
    [][Flushed(lastSave')
       => /\ UNCHANGED <<CURRENT_HEATMAP, arrays, m_WayPoints, m_AIWayPoints>>
          /\ (Wrote(lastSave') /\ ~dirty /\ m_SessionFileName \in DOMAIN disk)
             => disk' = disk]_vars

\* a second write with no append in between, after the clock moved
C9_Witness ==
    /\ lastSave = "rewritten"
    /\ clock > 0
    /\ AggregateSize >= 1

\* --------------------------------------------------------------- claim C10
\* C10: OnInit assigns the session path and no later step changes it; every
\* flush that writes leaves exactly one file, at that path, holding the whole
\* aggregate of that moment.
C10_OneFileWholeAggregate ==
    [][/\ Wrote(lastSave')
          => /\ DOMAIN disk' = {m_SessionFileName'}
             /\ FullDocument(disk'[m_SessionFileName'], CURRENT_HEATMAP', arrays')
       /\ ev'.op = "OnInit" => m_SessionFileName' # ""
       /\ inited => m_SessionFileName' = m_SessionFileName]_vars

\* a flush overwrote an older file with a larger aggregate
C10_Witness ==
    /\ lastSave = "overwritten"
    /\ AggregateSize >= 3
    /\ \E a \in Agents : Len(Trajectory(a)) >= 2

\* before is a prefix of after
IsPrefix(before, after) ==
    Len(before) <= Len(after) /\ SubSeq(after, 1, Len(before)) = before

\* --------------------------------------------------------------- claim C11
\* C11: the aggregate is append-only. In every step each of its three
\* collections keeps its previous contents as a prefix of its new contents,
\* so a registered trajectory is never removed or replaced, and each
\* registered trajectory keeps its previous waypoints as a prefix of its new
\* ones.
C11_AppendOnly ==
    [][/\ IsPrefix(CURRENT_HEATMAP.m_ZombiePoints, CURRENT_HEATMAP'.m_ZombiePoints)
       /\ IsPrefix(CURRENT_HEATMAP.m_AIDeathPoints, CURRENT_HEATMAP'.m_AIDeathPoints)
       /\ IsPrefix(CURRENT_HEATMAP.m_AIWayPoints, CURRENT_HEATMAP'.m_AIWayPoints)
       /\ \A i \in 1..Len(CURRENT_HEATMAP.m_AIWayPoints) :
              IsPrefix(arrays[CURRENT_HEATMAP.m_AIWayPoints[i]],
                       arrays'[CURRENT_HEATMAP.m_AIWayPoints[i]])]_vars

\* a registered trajectory grew by waypoints of different times, next to a
\* second registered trajectory, a death point and a zombie point
C11_Witness ==
    /\ Len(CURRENT_HEATMAP.m_AIWayPoints) = 2
    /\ Len(CURRENT_HEATMAP.m_AIDeathPoints) = 1
    /\ Len(CURRENT_HEATMAP.m_ZombiePoints) = 1
    /\ \E i \in 1..Len(CURRENT_HEATMAP.m_AIWayPoints) :
           LET t == arrays[CURRENT_HEATMAP.m_AIWayPoints[i]] IN
           Len(t) >= 3 /\ t[1][2] # t[Len(t)][2]

\* the call of SaveHeatmapData got as far as JsonSaveFile
Attempted(v) == v \in {"failed", "written", "overwritten", "rewritten"}

\* --------------------------------------------------------------- claim C12
\* C12: a flush whose write fails leaves the aggregate, every trajectory and
\* the session path as they were. After a failed write the entities go on
\* recording: an eligible tick captures by the throttle and a death appends
\* its waypoint. The next update that reaches AUTOSAVE_INTERVAL, and
\* OnMissionFinish, call the write again, and when the file system accepts it
\* the file holds the whole aggregate.
C12_FailedWrite ==
    [][/\ lastSave' = "failed"
          => UNCHANGED <<CURRENT_HEATMAP, arrays, m_WayPoints, m_AIWayPoints,
                         m_HeatmapTime, alive, m_SessionFileName, disk>>
       /\ \A a \in Agents, dt \in SessionDeltas, pos \in Positions :
            (writeFailed /\ IsTick(a) /\ ~Skipped(a, TRUE)
                /\ TickStep(a, dt, TRUE, FALSE, pos))
            => (Captured(a) <=> \/ m_HeatmapTime[a] = FLOAT_MAX
                                \/ sinceCapture[a] + dt >= Threshold(FALSE))
       /\ \A a \in Agents :
            (writeFailed /\ IsDeath(a) /\ m_AIWayPoints[a] # NULL)
            => /\ Captured(a)
               /\ GrewByOne(CURRENT_HEATMAP.m_AIDeathPoints,
                            CURRENT_HEATMAP'.m_AIDeathPoints)
       /\ \A z \in Zombies :
            (writeFailed /\ IsDeath(z))
            => GrewByOne(CURRENT_HEATMAP.m_ZombiePoints,
                         CURRENT_HEATMAP'.m_ZombiePoints)
       /\ \A timeslice \in Timeslices, ok \in BOOLEAN :
            (writeFailed /\ ev'.op = "OnUpdate" /\ UpdateStep(timeslice, ok)
                /\ sinceFlush + timeslice >= AUTOSAVE_INTERVAL)
            => /\ Attempted(lastSave')
               /\ (ok /\ dirExists)
                  => /\ Wrote(lastSave')
                     /\ FullDocument(disk'[m_SessionFileName], CURRENT_HEATMAP, arrays)
       /\ \A ok \in BOOLEAN :
            (writeFailed /\ ev'.op = "OnMissionFinish" /\ FinishStep(ok))
            => /\ Attempted(lastSave')
               /\ (ok /\ dirExists)
                  => /\ Wrote(lastSave')
                     /\ FullDocument(disk'[m_SessionFileName], CURRENT_HEATMAP, arrays)]_vars

\* every write failed until an autosave wrote the file for the first time,
\* with the waypoints appended in between
C12_Witness ==
    /\ writeFailed
    /\ ev.op = "OnUpdate"
    /\ lastSave = "written"
    /\ ~finished
    /\ AggregateSize >= 2
    /\ \E a \in Agents : Len(Trajectory(a)) >= 1

\* --------------------------------------------------------------- claim C13
\* C13 as stated: when OnInit could not create the profile folder, no later
\* update and no OnMissionFinish tries to write the session file, while an
\* eligible tick still captures by the throttle and a death still appends its
\* waypoint.
C13_NoWriteWithoutFolder ==
    [][(inited /\ ~dirExists)
       => /\ ~Attempted(lastSave')
          /\ \A a \in Agents, dt \in SessionDeltas, pos \in Positions :
               (IsTick(a) /\ ~Skipped(a, TRUE) /\ TickStep(a, dt, TRUE, FALSE, pos))
               => (Captured(a) <=> \/ m_HeatmapTime[a] = FLOAT_MAX
                                   \/ sinceCapture[a] + dt >= Threshold(FALSE))
          /\ \A a \in Agents :
               (IsDeath(a) /\ m_AIWayPoints[a] # NULL)
               => GrewByOne(CURRENT_HEATMAP.m_AIDeathPoints,
                            CURRENT_HEATMAP'.m_AIDeathPoints)
          /\ \A z \in Zombies :
               IsDeath(z) => GrewByOne(CURRENT_HEATMAP.m_ZombiePoints,
                                       CURRENT_HEATMAP'.m_ZombiePoints)]_vars

\* the agent's throttle has captured before: one of the trajectories it
\* allocated holds a waypoint while the agent lives
CapturedBefore(a) ==
    alive[a] /\ \E i \in DOMAIN arrays : owner[i] = a /\ Len(arrays[i]) >= 1

\* --------------------------------------------------------------- claim C14
\* C14: a throttled capture on a tick outside a vehicle, when the agent's
\* throttle has captured before, comes only after at least HEATMAP_TICK_TIME
\* of eligible tick time since that earlier capture.
C14_NormalRateOnFoot ==
    [][\A a \in Agents, dt \in Deltas, pos \in Positions :
         (IsTick(a) /\ ~Skipped(a, TRUE) /\ TickStep(a, dt, TRUE, FALSE, pos)
             /\ Captured(a) /\ CapturedBefore(a))
         => sinceCapture[a] + dt >= HEATMAP_TICK_TIME]_vars

\* a capture outside a vehicle followed an earlier capture of the same agent
C14_Witness ==
    \E a \in Agents :
        /\ ev = TickEvent(a, TRUE, FALSE)
        /\ alive[a]
        /\ sinceCapture[a] = 0
        /\ m_HeatmapTime[a] = 0
        /\ \E i \in DOMAIN arrays : owner[i] = a /\ Len(arrays[i]) >= 2

\* the places of m_AIWayPoints of the aggregate that hold a trajectory
\* allocated by agent a
RegisteredFor(a) ==
    {i \in 1..Len(CURRENT_HEATMAP.m_AIWayPoints) :
         owner[CURRENT_HEATMAP.m_AIWayPoints[i]] = a}

\* --------------------------------------------------------------- claim C15
\* C15 as stated: no agent has more than one trajectory registered in the
\* aggregate, and the trajectory an agent appends to is one registered for it.
C15_OneTrajectoryPerAgent ==
    \A a \in Agents :
        /\ Cardinality(RegisteredFor(a)) <= 1
        /\ m_AIWayPoints[a] # NULL
           => \E i \in RegisteredFor(a) :
                  CURRENT_HEATMAP.m_AIWayPoints[i] = m_AIWayPoints[a]

\* the session path that embeds the calendar time of the session start
CalendarName(date) ==
    "$profile:Heatmap/session_" \o ToString(date[1]) \o "-" \o ToString(date[2])
        \o "-" \o ToString(date[3]) \o "_" \o ToString(date[4]) \o "-"
        \o ToString(date[5]) \o "-" \o ToString(date[6]) \o "_Heatmap.json"

\* --------------------------------------------------------------- claim C16
\* C16 as stated: OnInit sets the session path to the folder followed by
\* session_<year>-<month>-<day>_<hour>-<minute>-<second>_Heatmap.json, the
\* numbers being those of the calendar at the session start, without leading
\* zeros, whatever the simulation clock shows: a start at 2024-03-05 14:07:33
\* gives session_2024-3-5_14-7-33_Heatmap.json.
C16_CalendarFileName ==
    [][\A date \in Dates, mkdirOk \in BOOLEAN :
         (ev'.op = "OnInit" /\ InitStep(date, mkdirOk))
         => /\ m_SessionFileName' = CalendarName(date)
            /\ date = <<2024, 3, 5, 14, 7, 33>>
               => m_SessionFileName'
                      = "$profile:Heatmap/session_2024-3-5_14-7-33_Heatmap.json"]_vars

\* --------------------------------------------------------------- claim C17
\* C17: one accumulator serves both thresholds. Every eligible tick that does
\* not capture, in a vehicle or not, adds its deltaTime to it, and every
\* capture resets it to 0; so an eligible tick in a vehicle captures as soon
\* as the eligible tick time since the last capture, the time spent outside
\* the vehicle included, reaches HEATMAP_TICK_TIME_VEHICLE.
C17_SharedAccumulator ==
    [][\A a \in Agents, dt \in Deltas, veh \in BOOLEAN, pos \in Positions :
         (IsTick(a) /\ ~Skipped(a, TRUE) /\ TickStep(a, dt, TRUE, veh, pos))
         => /\ (veh /\ sinceCapture[a] + dt >= HEATMAP_TICK_TIME_VEHICLE)
               => Captured(a)
            /\ Captured(a) => m_HeatmapTime'[a] = 0
            /\ ~Captured(a) => m_HeatmapTime'[a] = sinceCapture[a] + dt]_vars

\* a later capture in a vehicle, less than HEATMAP_TICK_TIME_VEHICLE after the
\* agent was last ticked outside it
C17_Witness ==
    \E a \in Agents :
        /\ ev = TickEvent(a, TRUE, TRUE)
        /\ alive[a]
        /\ m_HeatmapTime[a] = 0
        /\ sinceCapture[a] = 0
        /\ Len(Trajectory(a)) >= 2
        /\ sinceEntered[a] < HEATMAP_TICK_TIME_VEHICLE

\* --------------------------------------------------------------- claim C18
\* C18: with handlers that run one at a time, every file written holds a
\* whole death or none of it: each waypoint of its m_AIDeathPoints is the
\* last waypoint of one of the trajectories of its m_AIWayPoints.
C18_DeathsWholeInFile ==
    \A p \in DOMAIN disk :
        \A k \in 1..Len(disk[p].m_AIDeathPoints) :
            \E i \in 1..Len(disk[p].m_AIWayPoints) :
                LET t == disk[p].m_AIWayPoints[i] IN
                Len(t) >= 1 /\ t[Len(t)] = disk[p].m_AIDeathPoints[k]

\* a file written after a death, with the trajectory the agent sampled
\* before it died next to a second trajectory
C18_Witness ==
    \E p \in DOMAIN disk :
        /\ Len(disk[p].m_AIDeathPoints) >= 1
        /\ Len(disk[p].m_AIWayPoints) >= 2
        /\ \E i \in 1..Len(disk[p].m_AIWayPoints) :
               Len(disk[p].m_AIWayPoints[i]) >= 2

\* no tick has found the agent eligible yet: no eligible tick time was
\* counted and none of the trajectories it allocated holds a waypoint
NeverTicked(a) ==
    /\ sinceCapture[a] = 0
    /\ \A i \in DOMAIN arrays : owner[i] = a => arrays[i] = <<>>

\* --------------------------------------------------------------- claim C19
\* C19: until the first tick that finds the agent eligible the accumulator
\* holds float.MAX, so that tick captures a waypoint whatever its deltaTime
\* and whether or not the agent is in a vehicle, and sets the accumulator to
\* 0; on every eligible tick after it the accumulator holds the eligible tick
\* time counted from 0 at the last capture.
C19_FirstTickCaptures ==
    [][\A a \in Agents, dt \in Deltas, veh \in BOOLEAN, pos \in Positions :
         (IsTick(a) /\ ~Skipped(a, TRUE) /\ TickStep(a, dt, TRUE, veh, pos))
         => IF NeverTicked(a)
            THEN /\ m_HeatmapTime[a] = FLOAT_MAX
                 /\ Captured(a)
                 /\ m_HeatmapTime'[a] = 0
            ELSE /\ m_HeatmapTime[a] = sinceCapture[a]
                 /\ m_HeatmapTime'[a] = sinceCapture'[a]]_vars

\* the first eligible tick captured, and the next tick, outside a vehicle,
\* counted its second from 0
C19_Witness ==
    \E a \in Agents :
        /\ ev = TickEvent(a, TRUE, FALSE)
        /\ alive[a]
        /\ Len(Trajectory(a)) = 1
        /\ m_HeatmapTime[a] = 1
        /\ sinceCapture[a] = 1

=============================================================================
